---- MODULE Spec2Model ----
(***************************************************************************)
(* Model of the tower-covering solver: Solver (solver.py) and Tower        *)
(* (tower.py).  A Solver owns a height x width coverage array (0 means     *)
(* uncovered, k > 0 means covered by the tower of rank k), a tower count   *)
(* and the list of committed towers.  A Tower is a mutable object holding  *)
(* a reference to its solver, the half-open bounds [x1,x2) x [y1,y2) and a *)
(* rank (None until committed).                                            *)
(***************************************************************************)
EXTENDS Integers, Sequences, FiniteSets, TLC

VARIABLES
    height,      \* height[s]: Solver.height of solver s
    width,       \* width[s]: Solver.width of solver s
    coverage,    \* coverage[s][y][x]: Solver.coverage of solver s
    num_tower,   \* num_tower[s]: Solver.num_tower
    tower_list,  \* tower_list[s]: Solver.tower_list, a list of references into towers
    towers,      \* the live Tower objects; a reference is an index into this sequence
    pc,          \* position of the caller: inside solve_once, or between API calls
    tower,       \* the local variable `tower` of the generate_* methods (a reference)
    result,      \* the value returned by solve_once (None until it returns)
    call,        \* the last call made and how it ended
    ever_added   \* the references of the towers that add_tower has given a rank

vars == <<height, width, coverage, num_tower, tower_list, towers, pc, tower, result, call,
          ever_added>>

----------------------------------------------------------------------------
(* Bounds of the model *)

\* largest area (height * width) of a solver that runs solve_once
MaxArea == 5
\* the same where termination is checked
MaxFairArea == 4
\* largest area of the solver on which single calls are made on every occupancy
MaxCallArea == 9
\* grid of the solver and number of Tower objects under free use of the methods
ApiHeight == 2
ApiWidth == 2
MaxTowers == 2

----------------------------------------------------------------------------
(* Values *)

\* Python's None (Tower.rank before commit, max_coordinates before any rectangle)
None == -1

\* the solver instances
S1 == "s1"
S2 == "s2"

----------------------------------------------------------------------------
(* Tower *)

\* Tower.__init__: the coordinate checks
ValidBounds(s, x1, x2, y1, y2) ==
    /\ 0 <= x1 /\ x1 < x2 /\ x2 <= width[s]
    /\ 0 <= y1 /\ y1 < y2 /\ y2 <= height[s]

\* Tower.__init__: the object built when the checks pass (rank defaults to None)
NewTower(s, x1, x2, y1, y2, rank) ==
    [solver |-> s, x1 |-> x1, x2 |-> x2, y1 |-> y1, y2 |-> y2, rank |-> rank]

\* Tower.__copy__: a new object with the solver, the bounds and the rank of t
copy(t) == NewTower(t.solver, t.x1, t.x2, t.y1, t.y2, t.rank)

\* Tower.is_for
is_for(t, s) == t.solver = s

\* Tower.mask: np.s_[y1:y2, x1:x2], as <<row start, row stop, column start, column stop>>
mask(t) == <<t.y1, t.y2, t.x1, t.x2>>

Min2(a, b) == IF a <= b THEN a ELSE b

\* the rows and the columns of array a that slice m selects (a slice stops at the array's edge)
NumRows(a, m) == Min2(m[2], Cardinality(DOMAIN a)) - m[1]
NumCols(a, m) == IF DOMAIN a = {} THEN 0 ELSE Min2(m[4], Cardinality(DOMAIN a[0])) - m[3]

\* solver.coverage[tower.mask]: the sub-array under the tower, local indices
SubArray(cov, t) ==
    LET m == mask(t)
    IN [yy \in 0..(NumRows(cov, m) - 1) |->
           [xx \in 0..(NumCols(cov, m) - 1) |-> cov[m[1] + yy][m[3] + xx]]]

\* solver.coverage[tower.mask] = rank: the array after the assignment
AssignedFirstCell(cov, t, rank) ==
    [y \in DOMAIN cov |->
        [x \in DOMAIN cov[y] |-> IF y = t.y1 /\ x = t.x1 THEN rank ELSE cov[y][x]]]
Assigned(cov, t, rank) ==
    LET m == mask(t)
    IN [y \in DOMAIN cov |->
           [x \in DOMAIN cov[y] |->
               IF m[1] <= y /\ y < m[2] /\ m[3] <= x /\ x < m[4]
               THEN rank ELSE cov[y][x]]]

\* np.all(a) of a two-dimensional array
NpAll(a) == \A yy \in DOMAIN a : \A xx \in DOMAIN a[yy] : a[yy][xx] # 0

\* np.any(a) of a two-dimensional array
NpAny(a) == \E yy \in DOMAIN a : \E xx \in DOMAIN a[yy] : a[yy][xx] # 0

\* Tower.trim: `if area > max_area`
IsNewMaxTie(area, max_area) == area >= max_area
IsNewMax(area, max_area) == area > max_area

\* Tower.trim: the opening pushed back after closing down to a height below the item
ReopenedAtColumn(xx0, xx, height0) == <<xx, height0>>
Reopened(xx0, xx, height0) == <<xx0, height0>>

\* Tower.trim: the rectangle closed at column xx on row yy, <<x1, x2, y1, y2>>
ClosedRectangleOffByOne(xx0, xx, yy, current_height) == <<xx0, xx, yy - current_height, yy + 1>>
ClosedRectangle(xx0, xx, yy, current_height) == <<xx0, xx, yy - current_height + 1, yy + 1>>

\* Tower.trim: the state of the scan before the first row
ScanInit ==
    [stack |-> <<>>, current_height |-> 0, max_area |-> -1,
     max_coordinates |-> <<None, None, None, None>>,
     xx0 |-> None, height0 |-> None, examined |-> <<>>]
\* (examined lists the rectangles the scan closes, those trim_animation shows
\* with render_animation(examine=True))

\* Tower.trim: `while item < current_height`, closing the rectangles taller than item
RECURSIVE CloseRectangles(_, _, _, _)
CloseRectangles(st, xx, yy, item) ==
    IF item < st.current_height
    THEN LET top == st.stack[Len(st.stack)]
             xx0 == top[1]
             height0 == top[2]
             area == st.current_height * (xx - xx0)
             rect == ClosedRectangle(xx0, xx, yy, st.current_height)
             better == IsNewMax(area, st.max_area)
         IN CloseRectangles(
                [stack |-> SubSeq(st.stack, 1, Len(st.stack) - 1),
                 current_height |-> height0,
                 max_area |-> IF better THEN area ELSE st.max_area,
                 max_coordinates |-> IF better THEN rect ELSE st.max_coordinates,
                 xx0 |-> xx0, height0 |-> height0,
                 examined |-> Append(st.examined, rect)],
                xx, yy, item)
    ELSE st

\* Tower.trim: the body of the loop over the columns, for one item of the row
ScanItem(st, xx, yy, item) ==
    IF item > st.current_height
    THEN [st EXCEPT !.stack = Append(@, <<xx, st.current_height>>),
                    !.current_height = item]
    ELSE IF item < st.current_height
    THEN LET c == CloseRectangles(st, xx, yy, item)
         IN IF c.current_height # item
            THEN [c EXCEPT !.current_height = item,
                           !.stack = IF item # 0
                                     THEN Append(@, Reopened(c.xx0, xx, c.height0))
                                     ELSE @]
            ELSE c
    ELSE st

\* Tower.trim: the loop over itertools.chain(cache, (0,)) from column xx on
RECURSIVE ScanRow(_, _, _, _)
ScanRow(st, cache, xx, yy) ==
    IF xx > Len(cache)
    THEN st
    ELSE LET item == IF xx < Len(cache) THEN cache[xx + 1] ELSE 0
         IN ScanRow(ScanItem(st, xx, yy, item), cache, xx + 1, yy)

\* Tower.trim: `cache += 1; cache[row != 0] = 0`
UpdateCacheNoReset(cache, row) == [i \in 1..Len(cache) |-> cache[i] + 1]
UpdateCache(cache, row) ==
    [i \in 1..Len(cache) |-> IF row[i - 1] # 0 THEN 0 ELSE cache[i] + 1]

\* Tower.trim: the loop over the rows of the sub-array from row yy on
RECURSIVE ScanRows(_, _, _, _)
ScanRows(st, cache, yy, sub) ==
    IF yy \notin DOMAIN sub
    THEN st
    ELSE LET c == UpdateCache(cache, sub[yy])
         IN ScanRows(ScanRow([st EXCEPT !.current_height = 0], c, 0, yy), c, yy + 1, sub)

\* Tower.trim: the main loop on a sub-array
Scan(sub) == ScanRows(ScanInit, [i \in 1..Cardinality(DOMAIN sub[0]) |-> 0], 0, sub)

\* Tower.trim: the whole method on tower object t, reading the coverage cov of
\* the tower's solver s; the outcome (how it ended) and the tower afterwards
trim(t, cov, s) ==
    LET sub == SubArray(cov, t)
        mc == Scan(sub).max_coordinates
        new == [t EXCEPT !.x2 = t.x1 + mc[2], !.x1 = t.x1 + mc[1],
                         !.y2 = t.y1 + mc[4], !.y1 = t.y1 + mc[3]]
    IN IF NpAll(sub)
       THEN [outcome |-> "RuntimeError: covered", tower |-> t]
       ELSE IF mc[1] = None
       THEN [outcome |-> "TypeError", tower |-> t]
       ELSE IF ~ (0 <= new.x1 /\ new.x1 < new.x2 /\ new.x2 <= width[s]
                  /\ 0 <= new.y1 /\ new.y1 < new.y2 /\ new.y2 <= height[s])
       THEN [outcome |-> "AssertionError", tower |-> new]
       ELSE [outcome |-> "ok", tower |-> new]

----------------------------------------------------------------------------
(* Solver *)

\* Solver.clear: np.zeros((height, width))
Zeros(h, w) == [y \in 0..(h - 1) |-> [x \in 0..(w - 1) |-> 0]]

\* Solver.solve_once and generate_random_valid_tower_untrimmed: np.all(self.coverage)
IsPartlyCovered(cov) == NpAny(cov)
IsFullyCovered(cov) == NpAll(cov)

\* generate_random_valid_tower_untrimmed: the test of its while loop on candidate t
IsRejected(cov, t) == NpAll(SubArray(cov, t))

\* Solver.generate_random_tower: the bounds <<x1, x2, y1, y2>> the four draws can give
RandomBounds(s) ==
    { <<x1, x1 + w, y1, y1 + h>> :
        <<w, x1, h, y1>> \in
            { d \in (1..width[s]) \X (0..width[s]) \X (1..height[s]) \X (0..height[s]) :
                d[2] <= width[s] - d[1] /\ d[4] <= height[s] - d[3] } }

\* Solver.add_tower: the rank given to the tower, n being num_tower before the call
RankOfNewStale(n) == n
RankOfNew(n) == n + 1

\* Solver.add_tower: how the call add_tower(towers[id]) on solver s ends
AddOutcomeUnchecked(s, id) ==
    IF ~ is_for(towers[id], s) THEN "RuntimeError: solver" ELSE "ok"
AddOutcome(s, id) ==
    IF ~ is_for(towers[id], s) THEN "RuntimeError: solver"
    ELSE IF NpAny(SubArray(coverage[s], towers[id])) THEN "RuntimeError: overlap"
    ELSE "ok"

\* Solver.add_tower: the state change of the call add_tower(towers[id]) on solver s
add_tower(s, id) ==
    IF AddOutcome(s, id) = "ok"
    THEN LET rank == RankOfNew(num_tower[s])
             t == [towers[id] EXCEPT !.rank = rank]
         IN /\ num_tower' = [num_tower EXCEPT ![s] = @ + 1]
            /\ towers' = [towers EXCEPT ![id] = t]
            /\ tower_list' = [tower_list EXCEPT ![s] = Append(@, id)]
            /\ coverage' = [coverage EXCEPT ![s] = Assigned(@, t, rank)]
            /\ ever_added' = ever_added \cup {id}
    ELSE UNCHANGED <<num_tower, towers, tower_list, coverage, ever_added>>

\* Solver.clear
clear(s) ==
    /\ coverage' = [coverage EXCEPT ![s] = Zeros(height[s], width[s])]
    /\ num_tower' = [num_tower EXCEPT ![s] = 0]
    /\ tower_list' = [tower_list EXCEPT ![s] = <<>>]

\* the record of a call: the method, its receiver, the tower passed (a reference),
\* the tower object as it was before the call, and how the call ended
Call(op, s, id, before, outcome) ==
    [op |-> op, solver |-> s, tower |-> id, before |-> before, outcome |-> outcome]

NoCall == Call("none", S1, None, None, "ok")

\* Solver.__init__ for each solver of the function dims (solver -> <<height, width>>)
Constructed(dims) ==
    /\ height = [s \in DOMAIN dims |-> dims[s][1]]
    /\ width = [s \in DOMAIN dims |-> dims[s][2]]
    /\ coverage = [s \in DOMAIN dims |-> Zeros(dims[s][1], dims[s][2])]
    /\ num_tower = [s \in DOMAIN dims |-> 0]
    /\ tower_list = [s \in DOMAIN dims |-> <<>>]

----------------------------------------------------------------------------
(* Solver.solve_once on the worker's solver, statement by statement *)

\* the worker after _initialize_worker(h, w), for any h * w <= area
Initialized(area) ==
    /\ \E h \in 1..area, w \in 1..area :
         h * w <= area /\ Constructed([s \in {S1} |-> <<h, w>>])
    /\ towers = <<>>
    /\ pc = "idle"
    /\ tower = None
    /\ result = None
    /\ call = NoCall
    /\ ever_added = {}

Init == Initialized(MaxArea)

\* solve_once is called (again): self.clear(); the towers of the last trial are dropped
SolveOnce ==
    /\ pc \in {"idle", "done"}
    /\ clear(S1)
    /\ towers' = <<>>
    /\ tower' = None
    /\ pc' = "while"
    /\ result' = None
    /\ call' = Call("clear", S1, None, None, "ok")
    /\ ever_added' = {}
    /\ UNCHANGED <<height, width>>

\* `while not np.all(self.coverage)` and, when it fails, `return self.num_tower`
WhileTest ==
    /\ pc = "while"
    /\ IF IsFullyCovered(coverage[S1])
       THEN pc' = "done" /\ result' = num_tower[S1]
       ELSE pc' = "generate" /\ result' = result
    /\ UNCHANGED <<height, width, coverage, num_tower, tower_list, towers, tower, call, ever_added>>

\* generate_random_valid_tower_untrimmed up to its first draw
Generate ==
    /\ pc = "generate"
    /\ IF IsFullyCovered(coverage[S1])
       THEN /\ pc' = "raised"
            /\ call' = Call("generate", S1, None, None, "RuntimeError: exhausted")
            /\ UNCHANGED <<towers, tower>>
       ELSE \E b \in RandomBounds(S1) :
              IF ValidBounds(S1, b[1], b[2], b[3], b[4])
              THEN /\ towers' = Append(towers, NewTower(S1, b[1], b[2], b[3], b[4], None))
                   /\ tower' = Len(towers) + 1
                   /\ pc' = "candidate"
                   /\ call' = Call("generate", S1, None, None, "ok")
              ELSE /\ pc' = "raised"
                   /\ call' = Call("generate", S1, None, None, "ValueError")
                   /\ UNCHANGED <<towers, tower>>
    /\ UNCHANGED <<height, width, coverage, num_tower, tower_list, result, ever_added>>

\* the while loop of generate_random_valid_tower_untrimmed: a rejected candidate is
\* replaced by a new draw
Resample ==
    /\ pc = "candidate"
    /\ IsRejected(coverage[S1], towers[tower])
    /\ \E b \in RandomBounds(S1) :
         IF ValidBounds(S1, b[1], b[2], b[3], b[4])
         THEN /\ towers' = [towers EXCEPT ![tower] = NewTower(S1, b[1], b[2], b[3], b[4], None)]
              /\ pc' = "candidate"
              /\ call' = call
         ELSE /\ pc' = "raised"
              /\ call' = Call("generate", S1, None, None, "ValueError")
              /\ towers' = towers
    /\ UNCHANGED <<height, width, coverage, num_tower, tower_list, tower, result, ever_added>>

\* the draw of Resample gives a candidate that is not rejected
ResampleValid ==
    /\ Resample
    /\ pc' = "candidate"
    /\ ~ IsRejected(coverage[S1], towers'[tower])

\* generate_random_valid_tower_trimmed: the candidate passes the loop and is trimmed
TrimCandidate ==
    /\ pc = "candidate"
    /\ ~ IsRejected(coverage[S1], towers[tower])
    /\ LET r == trim(towers[tower], coverage[S1], S1)
       IN /\ towers' = [towers EXCEPT ![tower] = r.tower]
          /\ call' = Call("trim", S1, tower, towers[tower], r.outcome)
          /\ pc' = IF r.outcome = "ok" THEN "add" ELSE "raised"
    /\ UNCHANGED <<height, width, coverage, num_tower, tower_list, tower, result, ever_added>>

\* self.add_tower(...) of the loop body
AddTrimmed ==
    /\ pc = "add"
    /\ add_tower(S1, tower)
    /\ call' = Call("add_tower", S1, tower, towers[tower], AddOutcome(S1, tower))
    /\ pc' = IF AddOutcome(S1, tower) = "ok" THEN "while" ELSE "raised"
    /\ UNCHANGED <<height, width, tower, result>>

Next == SolveOnce \/ WhileTest \/ Generate \/ Resample \/ TrimCandidate \/ AddTrimmed

Spec == Init /\ [][Next]_vars

\* the condition under which TrimCandidate can be taken
TrimCandidateEnabled == pc = "candidate" /\ ~ IsRejected(coverage[S1], towers[tower])

\* The trial's own steps are taken, and the rejection loop does not draw rejected
\* candidates forever.  The last conjunct is WF_vars(TrimCandidate) with its
\* enabling condition written out.
Fairness ==
    /\ WF_vars(WhileTest)
    /\ WF_vars(Generate)
    /\ WF_vars(ResampleValid)
    /\ WF_vars(AddTrimmed)
    /\ ([]<>(~ TrimCandidateEnabled) \/ []<><<TrimCandidate>>_vars)

FairInit == Initialized(MaxFairArea)

FairSpec == FairInit /\ [][Next]_vars /\ Fairness

----------------------------------------------------------------------------
(* Tower.trim and Solver.add_tower on every tower and every occupancy under it *)

\* the cells <<y, x>> inside the bounds b = <<x1, x2, y1, y2>>
CellsOf(b) == (b[3]..(b[4] - 1)) \X (b[1]..(b[2] - 1))

\* every <<x1, x2, y1, y2>> that Tower.__init__ accepts on an h x w solver
AllBounds(h, w) ==
    { b \in (0..w) \X (0..w) \X (0..h) \X (0..h) :
        b[1] < b[2] /\ b[3] < b[4] }

\* the cells of an h x w grid in row-major order
CellsInOrder(h, w) == [n \in 1..(h * w) |-> <<(n - 1) \div w, (n - 1) % w>>]

\* A solver in use and a tower not yet committed: S1 after add_tower of a one-cell
\* tower on each cell of P in row-major order, and a tower created with bounds b
\* for S1 or for the unused solver S2.  P lies inside b: the calls read no other cell.
CallInit ==
    \E h \in 1..MaxCallArea, w \in 1..MaxCallArea :
      /\ h * w <= MaxCallArea
      /\ \E b \in AllBounds(h, w), owner \in {S1, S2} :
           \E P \in SUBSET CellsOf(b) :
             LET IsIn(c) == c \in P
                 cells == SelectSeq(CellsInOrder(h, w), IsIn)
                 k == Len(cells)
                 committed == [i \in 1..k |->
                                 [solver |-> S1, x1 |-> cells[i][2], x2 |-> cells[i][2] + 1,
                                  y1 |-> cells[i][1], y2 |-> cells[i][1] + 1, rank |-> i]]
             IN /\ height = [s \in {S1, S2} |-> h]
                /\ width = [s \in {S1, S2} |-> w]
                /\ coverage = [s \in {S1, S2} |->
                                  [y \in 0..(h - 1) |->
                                      [x \in 0..(w - 1) |->
                                          IF s = S1 /\ <<y, x>> \in P
                                          THEN CHOOSE i \in 1..k : cells[i] = <<y, x>>
                                          ELSE 0]]]
                /\ num_tower = [s \in {S1, S2} |-> IF s = S1 THEN k ELSE 0]
                /\ tower_list = [s \in {S1, S2} |-> IF s = S1 THEN [i \in 1..k |-> i] ELSE <<>>]
                /\ towers = Append(committed, NewTower(owner, b[1], b[2], b[3], b[4], None))
                /\ tower = k + 1
                /\ pc = "before call"
                /\ result = None
                /\ call = NoCall
                /\ ever_added = 1..k

\* tower.trim() on the candidate
TrimCall ==
    /\ pc = "before call"
    /\ LET t == towers[tower]
           r == trim(t, coverage[t.solver], t.solver)
       IN /\ towers' = [towers EXCEPT ![tower] = r.tower]
          /\ call' = Call("trim", t.solver, tower, t, r.outcome)
    /\ pc' = "after call"
    /\ UNCHANGED <<height, width, coverage, num_tower, tower_list, tower, result, ever_added>>

\* S1.add_tower(towers[id]) on the tower as created, or on a tower already committed
AddCall ==
    /\ pc = "before call"
    /\ \E id \in DOMAIN towers :
         /\ add_tower(S1, id)
         /\ call' = Call("add_tower", S1, id, towers[id], AddOutcome(S1, id))
    /\ pc' = "after call"
    /\ UNCHANGED <<height, width, tower, result>>

CallNext == TrimCall \/ AddCall

CallSpec == CallInit /\ [][CallNext]_vars

----------------------------------------------------------------------------
(* Free use of the methods: create_tower, Tower, Tower.copy, Tower.trim, add_tower *)
(* and clear in any order                                                           *)

\* Two solvers are constructed; towers are created for either, and the calls on a
\* solver go to S1.
ApiInit ==
    /\ Constructed((S1 :> <<ApiHeight, ApiWidth>>) @@ (S2 :> <<1, 1>>))
    /\ towers = <<>>
    /\ pc = "api"
    /\ tower = None
    /\ result = None
    /\ call = NoCall
    /\ ever_added = {}

\* s.create_tower(x1, x2, y1, y2)
ApiCreateTower ==
    /\ Len(towers) < MaxTowers
    /\ \E s \in DOMAIN coverage :
         \E x1 \in 0..width[s], x2 \in 0..width[s], y1 \in 0..height[s], y2 \in 0..height[s] :
           IF ValidBounds(s, x1, x2, y1, y2)
           THEN /\ towers' = Append(towers, NewTower(s, x1, x2, y1, y2, None))
                /\ call' = Call("create_tower", s, Len(towers) + 1, None, "ok")
           ELSE /\ towers' = towers
                /\ call' = Call("create_tower", s, None, None, "ValueError")
    /\ UNCHANGED <<height, width, coverage, num_tower, tower_list, pc, tower, result,
                   ever_added>>

\* Tower(s, x1, x2, y1, y2, rank): the constructor called with a rank
ApiTower ==
    /\ Len(towers) < MaxTowers
    /\ \E s \in DOMAIN coverage, rank \in 1..MaxTowers :
         \E x1 \in 0..width[s], x2 \in 0..width[s], y1 \in 0..height[s], y2 \in 0..height[s] :
           IF ValidBounds(s, x1, x2, y1, y2)
           THEN /\ towers' = Append(towers, NewTower(s, x1, x2, y1, y2, rank))
                /\ call' = Call("Tower", s, Len(towers) + 1, None, "ok")
           ELSE /\ towers' = towers
                /\ call' = Call("Tower", s, None, None, "ValueError")
    /\ UNCHANGED <<height, width, coverage, num_tower, tower_list, pc, tower, result,
                   ever_added>>

\* towers[id].copy(): the copy is a new object, in no tower_list
ApiCopy ==
    /\ Len(towers) < MaxTowers
    /\ \E id \in DOMAIN towers :
         LET t == towers[id]
         IN IF ValidBounds(t.solver, t.x1, t.x2, t.y1, t.y2)
            THEN /\ towers' = Append(towers, copy(t))
                 /\ call' = Call("copy", t.solver, id, t, "ok")
            ELSE /\ towers' = towers
                 /\ call' = Call("copy", t.solver, id, t, "ValueError")
    /\ UNCHANGED <<height, width, coverage, num_tower, tower_list, pc, tower, result,
                   ever_added>>

\* towers[id].trim()
ApiTrim ==
    \E id \in DOMAIN towers :
      LET t == towers[id]
          r == trim(t, coverage[t.solver], t.solver)
      IN /\ towers' = [towers EXCEPT ![id] = r.tower]
         /\ call' = Call("trim", t.solver, id, t, r.outcome)
         /\ UNCHANGED <<height, width, coverage, num_tower, tower_list, pc, tower, result,
                        ever_added>>

\* S1.add_tower(towers[id])
ApiAddTower ==
    \E id \in DOMAIN towers :
      /\ add_tower(S1, id)
      /\ call' = Call("add_tower", S1, id, towers[id], AddOutcome(S1, id))
      /\ UNCHANGED <<height, width, pc, tower, result>>

\* S1.clear()
ApiClear ==
    /\ clear(S1)
    /\ call' = Call("clear", S1, None, None, "ok")
    /\ UNCHANGED <<height, width, towers, pc, tower, result, ever_added>>

ApiNext == ApiCreateTower \/ ApiTower \/ ApiCopy \/ ApiTrim \/ ApiAddTower \/ ApiClear

ApiSpec == ApiInit /\ [][ApiNext]_vars

----------------------------------------------------------------------------
(* Properties *)

Bounds(t) == <<t.x1, t.x2, t.y1, t.y2>>

Max(S) == CHOOSE m \in S : \A n \in S : n <= m

Area(b) == (b[2] - b[1]) * (b[4] - b[3])

\* the towers of S1.tower_list, in order
Committed == [i \in 1..Len(tower_list[S1]) |-> towers[tower_list[S1][i]]]

\* the number of uncovered cells of S1
Uncovered == Cardinality({c \in (DOMAIN coverage[S1]) \X (0..(width[S1] - 1)) :
                            coverage[S1][c[1]][c[2]] = 0})

\* reference: the sub-rectangles of b whose cells are all uncovered in cov
EmptyRectangles(cov, b) ==
    { r \in AllBounds(b[4], b[2]) :
        /\ b[1] <= r[1] /\ r[2] <= b[2] /\ b[3] <= r[3] /\ r[4] <= b[4]
        /\ \A c \in CellsOf(r) : cov[c[1]][c[2]] = 0 }

\* a call of trim has just returned normally
Trimmed == call.op = "trim" /\ call.outcome = "ok"

\* C1: during solve_once, any two distinct towers of tower_list have disjoint
\* rectangles [x1,x2) x [y1,y2).
C1_NonOverlap ==
    \A i \in DOMAIN Committed, j \in DOMAIN Committed :
        i # j => CellsOf(Bounds(Committed[i])) \cap CellsOf(Bounds(Committed[j])) = {}

\* three towers are committed, the last one cut down by trim from a larger candidate
C1_Witness ==
    /\ pc = "while"
    /\ Len(tower_list[S1]) >= 3
    /\ call.op = "add_tower"
    /\ Area(Bounds(towers[call.tower])) >= 2

\* C2: when solve_once returns, every cell of coverage is non-zero.
C2_FullCoverage ==
    pc = "done" =>
        \A y \in 0..(height[S1] - 1), x \in 0..(width[S1] - 1) : coverage[S1][y][x] # 0

\* solve_once has returned on a grid of several cells covered by several towers
C2_Witness == pc = "done" /\ height[S1] * width[S1] >= 4 /\ num_tower[S1] = 2

\* C3: on a candidate with at least one uncovered cell, trim succeeds and the area
\* of the bounds it leaves is the largest area of an all-uncovered sub-rectangle
\* of the candidate.
C3_TrimMaxArea ==
    (call.op = "trim" /\ ~ NpAll(SubArray(coverage[call.solver], call.before))) =>
        /\ call.outcome = "ok"
        /\ Area(Bounds(towers[call.tower])) =
              Max({Area(r) : r \in EmptyRectangles(coverage[call.solver], Bounds(call.before))})

\* trim has cut a three by three candidate with covered cells down to four cells
C3_Witness ==
    /\ Trimmed
    /\ Area(Bounds(call.before)) = 9
    /\ call.before.x2 - call.before.x1 = 3
    /\ NpAny(SubArray(coverage[call.solver], call.before))
    /\ Area(Bounds(towers[call.tower])) = 4

\* C4: after trim succeeds the new bounds lie inside the original ones, are not
\* empty, and hold no covered cell.
C4_TrimContained ==
    Trimmed =>
        LET t == towers[call.tower]
            o == call.before
        IN /\ o.x1 <= t.x1 /\ t.x1 < t.x2 /\ t.x2 <= o.x2
           /\ o.y1 <= t.y1 /\ t.y1 < t.y2 /\ t.y2 <= o.y2
           /\ \A c \in CellsOf(Bounds(t)) : coverage[call.solver][c[1]][c[2]] = 0

\* trim has moved all four bounds of a candidate inwards
C4_Witness ==
    /\ Trimmed
    /\ call.before.x1 < towers[call.tower].x1 /\ towers[call.tower].x2 < call.before.x2
    /\ call.before.y1 < towers[call.tower].y1 /\ towers[call.tower].y2 < call.before.y2

\* C5: during solve_once num_tower is the length of tower_list and the i-th tower
\* of tower_list has rank i; the value returned is that length.
C5_RankOrder ==
    /\ num_tower[S1] = Len(tower_list[S1])
    /\ \A i \in DOMAIN Committed : Committed[i].rank = i
    /\ pc = "done" => result = Len(tower_list[S1])

\* solve_once has returned three, with three towers ranked
C5_Witness == pc = "done" /\ result = 3 /\ Len(tower_list[S1]) = 3

\* C6: a trial that has started returns, provided the rejection loop does not draw
\* rejected candidates forever; every add_tower of the loop lowers the number of
\* uncovered cells.
C6_Terminates ==
    /\ [][pc = "add" => Uncovered' < Uncovered]_vars
    /\ (pc = "while") ~> (pc = "done")

\* solve_once has returned after committing a tower for every cell of a grid of
\* four cells or more
C6_Witness == pc = "done" /\ result >= 4 /\ result = height[S1] * width[S1]

\* C7: add_tower called with a tower that overlaps covered cells, or that was
\* created for another solver, raises and leaves coverage, num_tower, tower_list
\* and the tower (its rank included) as they were.
C7_RejectedUnchanged ==
    [][(/\ call'.op = "add_tower"
        /\ \/ towers[call'.tower].solver # call'.solver
           \/ \E c \in CellsOf(Bounds(towers[call'.tower])) :
                  coverage[call'.solver][c[1]][c[2]] # 0)
       => /\ call'.outcome \in {"RuntimeError: solver", "RuntimeError: overlap"}
          /\ coverage' = coverage
          /\ num_tower' = num_tower
          /\ tower_list' = tower_list
          /\ towers' = towers]_vars

\* add_tower has refused a tower of its own solver that overlaps one covered cell
\* and has uncovered cells too
C7_Witness ==
    /\ call.op = "add_tower"
    /\ call.outcome = "RuntimeError: overlap"
    /\ num_tower[S1] = 1
    /\ ~ NpAll(SubArray(coverage[S1], towers[call.tower]))

\* C8: once add_tower has given a tower a rank, no later call changes its rank or
\* its bounds.
C8_Frozen ==
    [][\A id \in ever_added : towers'[id] = towers[id]]_vars

\* C9: no call inside solve_once raises.
C9_NoError == pc # "raised" /\ call.outcome = "ok"

\* inside solve_once, trim has just cut a candidate down and returned normally
C9_Witness ==
    /\ pc = "add"
    /\ Trimmed
    /\ Area(Bounds(towers[call.tower])) < Area(Bounds(call.before))
    /\ num_tower[S1] >= 2

\* the rectangles trim examines on the candidate, in the order of the scan
Examined == Scan(SubArray(coverage[call.solver], call.before)).examined

\* C10: trim returns the first rectangle of the largest area that its scan closes,
\* the scan going through the rows top to bottom and closing rectangles from left
\* to right within a row; on a one-row candidate of width 3 with only the middle
\* cell covered it returns the left cell.
C10_FirstMaximum ==
    Trimmed =>
        LET ex == Examined
            o == call.before
            best == Max({Area(ex[i]) : i \in DOMAIN ex})
            first == CHOOSE i \in DOMAIN ex :
                        /\ Area(ex[i]) = best
                        /\ \A j \in 1..(i - 1) : Area(ex[j]) < best
            sub == SubArray(coverage[call.solver], o)
        IN /\ Bounds(towers[call.tower]) =
                 <<o.x1 + ex[first][1], o.x1 + ex[first][2],
                   o.y1 + ex[first][3], o.y1 + ex[first][4]>>
           /\ \A i \in DOMAIN ex, j \in DOMAIN ex :
                 i < j => \/ ex[i][4] < ex[j][4]
                          \/ ex[i][4] = ex[j][4] /\ ex[i][2] <= ex[j][2]
           /\ (/\ o.y2 - o.y1 = 1 /\ o.x2 - o.x1 = 3
               /\ sub[0][0] = 0 /\ sub[0][1] # 0 /\ sub[0][2] = 0)
              => Bounds(towers[call.tower]) = <<o.x1, o.x1 + 1, o.y1, o.y2>>

\* trim has returned the left cell of a one-row candidate of width 3 whose middle
\* cell alone is covered
C10_Witness ==
    /\ Trimmed
    /\ call.before.y2 - call.before.y1 = 1
    /\ call.before.x2 - call.before.x1 = 3
    /\ coverage[call.solver][call.before.y1][call.before.x1] = 0
    /\ coverage[call.solver][call.before.y1][call.before.x1 + 1] # 0
    /\ coverage[call.solver][call.before.y1][call.before.x1 + 2] = 0
    /\ towers[call.tower].x2 = call.before.x1 + 1

====
